---- MODULE Spec2Model ----
(***************************************************************************)
(* The calendar core of the Mergington High School API (src/src/app.py):   *)
(* the in-memory event store, its request handlers, recurrence expansion   *)
(* and conflict detection.                                                 *)
(*                                                                         *)
(* Encoding of the data the handlers work on                               *)
(*   - a datetime string is a record [tag, t]: tag "naive" (ISO 8601       *)
(*     without offset), "aware" (ISO 8601 with a Z / +00:00 offset),       *)
(*     "bad" (non-empty, not ISO 8601), "empty" (the empty string) or      *)
(*     "none" (Python None); t is the wall-clock time in seconds since     *)
(*     1970-01-01T00:00:00 (0 when the string holds no time);              *)
(*   - a parsed datetime is a record [aware, t];                           *)
(*   - a date string (cancel-date's date_str) is a record [tag, d, text]:  *)
(*     text is the string itself, and two date strings are equal exactly   *)
(*     when their texts are; tag and d are what strptime makes of the      *)
(*     text: tag "canon" (zero-padded YYYY-MM-DD), "unpadded" (a real date *)
(*     with a month or day of one digit, such as 2024-12-3 or 2024-1-05)   *)
(*     or "bad", and d the day number since 1970-01-01;                    *)
(*   - any other str is the TLA+ string of its text, and a text that       *)
(*     begins with "<" is written with that character doubled; None and a  *)
(*     missing dict key are the strings "<None>" and "<Absent>", which are *)
(*     therefore the encoding of no text: the str None is "None", a value  *)
(*     different from None, and it is truthy.                              *)
(***************************************************************************)
EXTENDS Integers, Sequences, FiniteSets, TLC

VARIABLES
    calendar_events,    \* app.py:50   event id -> stored event dict
    event_id_counter,   \* app.py:51   next id to assign
    activities,         \* app.py:42   activity name -> participants
    hash_seed,          \* the hashes the process has computed (hash(), app.py:635)
    n_updates,          \* number of update requests applied to a stored event
    resp,               \* the response of the last request handled
    handlers            \* the create_event calls under way in worker threads

vars ==
    <<calendar_events, event_id_counter, activities, hash_seed, n_updates,
      resp, handlers>>

-----------------------------------------------------------------------------
(* Calendar arithmetic: datetime, date and timedelta of the standard library *)

SecondsPerDay == 86400

DefaultRecurrenceDays == 365

DaysPerWeek == 7

IsLeap(y) == (y % 4 = 0) /\ ((y % 100 # 0) \/ (y % 400 = 0))

DaysInMonth(y, m) ==
    IF m = 2 THEN (IF IsLeap(y) THEN 29 ELSE 28)
    ELSE IF m \in {4, 6, 9, 11} THEN 30 ELSE 31

\* day number (days since 1970-01-01) of the calendar date y-m-d
DaysFromCivil(y, m, d) ==
    LET yy  == IF m <= 2 THEN y - 1 ELSE y
        era == yy \div 400
        yoe == yy - era * 400
        mp  == IF m > 2 THEN m - 3 ELSE m + 9
        doy == (153 * mp + 2) \div 5 + d - 1
        doe == yoe * 365 + yoe \div 4 - yoe \div 100 + doy
    IN  era * 146097 + doe - 719468

\* calendar date [y, m, d] of a day number
CivilFromDays(n) ==
    LET z   == n + 719468
        era == z \div 146097
        doe == z - era * 146097
        yoe == (doe - doe \div 1460 + doe \div 36524 - doe \div 146096) \div 365
        doy == doe - (365 * yoe + yoe \div 4 - yoe \div 100)
        mp  == (5 * doy + 2) \div 153
        dd  == doy - (153 * mp + 2) \div 5 + 1
        mm  == IF mp < 10 THEN mp + 3 ELSE mp - 9
    IN  [y |-> yoe + era * 400 + (IF mm <= 2 THEN 1 ELSE 0), m |-> mm, d |-> dd]

\* seconds since the epoch of the wall-clock time y-m-d hh:mi:ss
DT(y, m, d, hh, mi, ss) ==
    DaysFromCivil(y, m, d) * SecondsPerDay + hh * 3600 + mi * 60 + ss

\* datetime.date(): the day number of a time
DateOf(t) == t \div SecondsPerDay

\* datetime.replace(year=.., month=..): same day of month and time of day in
\* month m of year y; ok is FALSE when that day does not exist (ValueError)
ReplaceMonth(t, y, m) ==
    LET c == CivilFromDays(DateOf(t))
    IN  IF c.d > DaysInMonth(y, m)
        THEN [ok |-> FALSE, t |-> 0]
        ELSE [ok |-> TRUE,
              t  |-> DaysFromCivil(y, m, c.d) * SecondsPerDay + (t % SecondsPerDay)]

-----------------------------------------------------------------------------
(* Strings *)

None == "<None>"

Truthy(s) == s # None /\ s # ""

Naive(t) == [tag |-> "naive", t |-> t]
Aware(t) == [tag |-> "aware", t |-> t]
BadTime == [tag |-> "bad", t |-> 0]
EmptyTime == [tag |-> "empty", t |-> 0]
NoTime == [tag |-> "none", t |-> 0]

\* truth value of an Optional[str] holding a datetime string
TimeTruthy(s) == s.tag \notin {"none", "empty"}

Digits == <<"0", "1", "2", "3", "4", "5", "6", "7", "8", "9">>

\* "%02d" and "%04d" of a number
Pad2(n) == Digits[((n \div 10) % 10) + 1] \o Digits[(n % 10) + 1]
Pad4(n) == Pad2(n \div 100) \o Pad2(n % 100)

\* the text of day number d; the month is zero-padded when mpad and the day
\* when dpad (a number of two digits is written in one way only)
DateText(d, mpad, dpad) ==
    LET c == CivilFromDays(d)
    IN  Pad4(c.y) \o "-"
        \o (IF mpad \/ c.m >= 10 THEN Pad2(c.m) ELSE Digits[c.m + 1]) \o "-"
        \o (IF dpad \/ c.d >= 10 THEN Pad2(c.d) ELSE Digits[c.d + 1])

CanonDate(d) == [tag |-> "canon", d |-> d, text |-> DateText(d, TRUE, TRUE)]

\* a spelling of day d that strptime accepts: it is the canonical one when
\* nothing is left unpadded
UnpaddedDate(d, mpad, dpad) ==
    [tag  |-> IF DateText(d, mpad, dpad) = DateText(d, TRUE, TRUE)
              THEN "canon" ELSE "unpadded",
     d    |-> d,
     text |-> DateText(d, mpad, dpad)]

BadDate == [tag |-> "bad", d |-> 0, text |-> "2024-13-45"]

\* parse_datetime: datetime.fromisoformat(dt_str.replace('Z', '+00:00')),
\* HTTP 400 on ValueError
parse_datetime(s) ==
    IF s.tag \in {"naive", "aware"}
    THEN [ok |-> TRUE, aware |-> (s.tag = "aware"), t |-> s.t]
    ELSE [ok |-> FALSE, aware |-> FALSE, t |-> 0]

\* datetime.isoformat()
isoformat(aware, t) == IF aware THEN Aware(t) ELSE Naive(t)

\* date.isoformat(): always the zero-padded spelling
date_isoformat(d) == CanonDate(d)

\* datetime.strptime(date_str, "%Y-%m-%d") succeeds: the directives accept
\* one-digit months and days
strptime_ok(ds) == ds.tag \in {"canon", "unpadded"}

-----------------------------------------------------------------------------
(* Stored events *)

\* a key that a dict does not hold (the conflict of the no-room branch has no
\* "room" key)
Absent == "<Absent>"

\* the ids of the stored events in dict order: keys are inserted with
\* increasing event_id_counter, so insertion order is increasing id
RECURSIVE SortedIds(_)
SortedIds(S) ==
    IF S = {} THEN <<>>
    ELSE LET m == CHOOSE x \in S : \A y \in S : x <= y
         IN  <<m>> \o SortedIds(S \ {m})

SeqToSet(q) == {q[i] : i \in 1 .. Len(q)}

\* a local variable: x is evaluated once, where it is assigned, and F is the
\* code that reads the variable
Bind(x, F(_)) == CHOOSE r \in {F(v) : v \in {x}} : TRUE

NumColors == 8

Colors == <<"#3788d8", "#dc3545", "#28a745", "#ffc107",
            "#6f42c1", "#fd7e14", "#20c997", "#e83e8c">>

\* String hashing is salted: hash(name) is fixed within a process and differs
\* from one process to the next (a random salt at start-up, unless
\* PYTHONHASHSEED is set), so that a process may give a name any hash value,
\* each name independently of the others.  A hash function is a function
\* from the names hashed to their hash values.

\* the hash values told apart: one for each index hash(..) % len(colors)
HashValues == 0 .. NumColors - 1

\* no name hashed yet
NoHashes == [n \in {} |-> 0]

\* the hash functions the process may turn out to have once it has hashed
\* name, seed being the hashes it has computed so far: the same function when
\* the name was hashed before, any value for a name hashed for the first time
Salted(seed, name) ==
    IF name \in DOMAIN seed THEN {seed}
    ELSE {seed @@ [n \in {name} |-> v] : v \in HashValues}

\* hash(name) in a process whose hash function is seed
str_hash(name, seed) == seed[name]

get_activity_color(activity_name, seed) ==
    Colors[(str_hash(activity_name, seed) % NumColors) + 1]

-----------------------------------------------------------------------------
(* check_event_conflicts *)

\* a faulty step that skips an event whose own date is among its cancelled
\* dates; the independence of the scan from the recurrence fields has to tell
\* it from ConflictStep
ConflictStepDates(start, end, room, exclude_event_id, event_id, event) ==
    LET es == parse_datetime(event.start)
        ee == parse_datetime(event.end)
    IN  IF exclude_event_id # 0 /\ event_id = exclude_event_id
          THEN [err |-> "none", hit |-> FALSE, c |-> <<>>]
        ELSE IF event.is_cancelled
          THEN [err |-> "none", hit |-> FALSE, c |-> <<>>]
        ELSE IF ~es.ok \/ ~ee.ok
          THEN [err |-> "InvalidFormat", hit |-> FALSE, c |-> <<>>]
        ELSE IF date_isoformat(DateOf(es.t)) \in SeqToSet(event.cancellation_dates)
          THEN [err |-> "none", hit |-> FALSE, c |-> <<>>]
        ELSE IF start.aware # ee.aware
          THEN [err |-> "TypeError", hit |-> FALSE, c |-> <<>>]
        ELSE IF ~(start.t < ee.t)
          THEN [err |-> "none", hit |-> FALSE, c |-> <<>>]
        ELSE IF end.aware # es.aware
          THEN [err |-> "TypeError", hit |-> FALSE, c |-> <<>>]
        ELSE IF ~(end.t > es.t)
          THEN [err |-> "none", hit |-> FALSE, c |-> <<>>]
        ELSE IF Truthy(room) /\ event.room = room
          THEN [err |-> "none", hit |-> TRUE,
                c |-> <<[event_id |-> event_id, title |-> event.title,
                         room |-> event.room, start |-> event.start,
                         end |-> event.end]>>]
        ELSE IF ~Truthy(room)
          THEN [err |-> "none", hit |-> TRUE,
                c |-> <<[event_id |-> event_id, title |-> event.title,
                         room |-> Absent, start |-> event.start,
                         end |-> event.end]>>]
        ELSE [err |-> "none", hit |-> FALSE, c |-> <<>>]

\* a faulty step that skips neither the excluded event nor a cancelled one;
\* the conflict set has to tell it from ConflictStep
ConflictStepEvery(start, end, room, exclude_event_id, event_id, event) ==
    LET es == parse_datetime(event.start)
        ee == parse_datetime(event.end)
    IN  IF ~es.ok \/ ~ee.ok
          THEN [err |-> "InvalidFormat", hit |-> FALSE, c |-> <<>>]
        ELSE IF start.aware # ee.aware
          THEN [err |-> "TypeError", hit |-> FALSE, c |-> <<>>]
        ELSE IF ~(start.t < ee.t)
          THEN [err |-> "none", hit |-> FALSE, c |-> <<>>]
        ELSE IF end.aware # es.aware
          THEN [err |-> "TypeError", hit |-> FALSE, c |-> <<>>]
        ELSE IF ~(end.t > es.t)
          THEN [err |-> "none", hit |-> FALSE, c |-> <<>>]
        ELSE IF Truthy(room) /\ event.room = room
          THEN [err |-> "none", hit |-> TRUE,
                c |-> <<[event_id |-> event_id, title |-> event.title,
                         room |-> event.room, start |-> event.start,
                         end |-> event.end]>>]
        ELSE IF ~Truthy(room)
          THEN [err |-> "none", hit |-> TRUE,
                c |-> <<[event_id |-> event_id, title |-> event.title,
                         room |-> Absent, start |-> event.start,
                         end |-> event.end]>>]
        ELSE [err |-> "none", hit |-> FALSE, c |-> <<>>]

\* a faulty step that counts touching intervals as overlapping; the overlap
\* test has to tell it from ConflictStep
ConflictStepTouching(start, end, room, exclude_event_id, event_id, event) ==
    LET es == parse_datetime(event.start)
        ee == parse_datetime(event.end)
    IN  IF exclude_event_id # 0 /\ event_id = exclude_event_id
          THEN [err |-> "none", hit |-> FALSE, c |-> <<>>]
        ELSE IF event.is_cancelled
          THEN [err |-> "none", hit |-> FALSE, c |-> <<>>]
        ELSE IF ~es.ok \/ ~ee.ok
          THEN [err |-> "InvalidFormat", hit |-> FALSE, c |-> <<>>]
        ELSE IF start.aware # ee.aware
          THEN [err |-> "TypeError", hit |-> FALSE, c |-> <<>>]
        ELSE IF ~(start.t <= ee.t)
          THEN [err |-> "none", hit |-> FALSE, c |-> <<>>]
        ELSE IF end.aware # es.aware
          THEN [err |-> "TypeError", hit |-> FALSE, c |-> <<>>]
        ELSE IF ~(end.t >= es.t)
          THEN [err |-> "none", hit |-> FALSE, c |-> <<>>]
        ELSE IF Truthy(room) /\ event.room = room
          THEN [err |-> "none", hit |-> TRUE,
                c |-> <<[event_id |-> event_id, title |-> event.title,
                         room |-> event.room, start |-> event.start,
                         end |-> event.end]>>]
        ELSE IF ~Truthy(room)
          THEN [err |-> "none", hit |-> TRUE,
                c |-> <<[event_id |-> event_id, title |-> event.title,
                         room |-> Absent, start |-> event.start,
                         end |-> event.end]>>]
        ELSE [err |-> "none", hit |-> FALSE, c |-> <<>>]

\* one iteration of the loop over calendar_events.items(): err is "none", or
\* the exception that leaves the loop; hit tells whether a conflict is appended
ConflictStep(start, end, room, exclude_event_id, event_id, event) ==
    LET es == parse_datetime(event.start)
        ee == parse_datetime(event.end)
    IN  IF exclude_event_id # 0 /\ event_id = exclude_event_id
          THEN [err |-> "none", hit |-> FALSE, c |-> <<>>]
        ELSE IF event.is_cancelled
          THEN [err |-> "none", hit |-> FALSE, c |-> <<>>]
        ELSE IF ~es.ok \/ ~ee.ok
          THEN [err |-> "InvalidFormat", hit |-> FALSE, c |-> <<>>]
        ELSE IF start.aware # ee.aware
          THEN [err |-> "TypeError", hit |-> FALSE, c |-> <<>>]
        ELSE IF ~(start.t < ee.t)
          THEN [err |-> "none", hit |-> FALSE, c |-> <<>>]
        ELSE IF end.aware # es.aware
          THEN [err |-> "TypeError", hit |-> FALSE, c |-> <<>>]
        ELSE IF ~(end.t > es.t)
          THEN [err |-> "none", hit |-> FALSE, c |-> <<>>]
        ELSE IF Truthy(room) /\ event.room = room
          THEN [err |-> "none", hit |-> TRUE,
                c |-> <<[event_id |-> event_id, title |-> event.title,
                         room |-> event.room, start |-> event.start,
                         end |-> event.end]>>]
        ELSE IF ~Truthy(room)
          THEN [err |-> "none", hit |-> TRUE,
                c |-> <<[event_id |-> event_id, title |-> event.title,
                         room |-> Absent, start |-> event.start,
                         end |-> event.end]>>]
        ELSE [err |-> "none", hit |-> FALSE, c |-> <<>>]

RECURSIVE ConflictLoop(_, _, _, _, _, _, _)
ConflictLoop(events, ids, start, end, room, exclude_event_id, conflicts) ==
    IF ids = <<>> THEN [err |-> "none", conflicts |-> conflicts]
    ELSE LET r == ConflictStep(start, end, room, exclude_event_id,
                               Head(ids), events[Head(ids)])
         IN  IF r.err # "none" THEN [err |-> r.err, conflicts |-> <<>>]
             ELSE ConflictLoop(events, Tail(ids), start, end, room,
                               exclude_event_id, conflicts \o r.c)

\* a faulty scan that, for an update, looks only at the events created before
\* the updated one; the symmetry of the scan has to tell it from
\* check_event_conflicts
check_event_conflicts_before(events, start, end, room, exclude_event_id) ==
    ConflictLoop(events,
                 SelectSeq(SortedIds(DOMAIN events),
                           LAMBDA i : exclude_event_id = 0
                                      \/ i < exclude_event_id),
                 start, end, room, exclude_event_id, <<>>)

\* start, end: parsed datetimes; exclude_event_id 0 stands for None (both are
\* falsy in "if exclude_event_id and ...")
check_event_conflicts(events, start, end, room, exclude_event_id) ==
    ConflictLoop(events, SortedIds(DOMAIN events), start, end, room,
                 exclude_event_id, <<>>)

-----------------------------------------------------------------------------
(* generate_recurring_events *)

\* the "move to next occurrence" part of the loop body: err "break" leaves the
\* loop normally, "ValueError" is datetime.replace's exception
NextOccurrence(recurrence, current) ==
    IF recurrence = "daily"
      THEN [err |-> "none", t |-> current + SecondsPerDay]
    ELSE IF recurrence = "weekly"
      THEN [err |-> "none", t |-> current + DaysPerWeek * SecondsPerDay]
    ELSE IF recurrence = "monthly"
      THEN LET c == CivilFromDays(DateOf(current))
               r == IF c.m = 12 THEN ReplaceMonth(current, c.y + 1, 1)
                    ELSE ReplaceMonth(current, c.y, c.m + 1)
           IN  IF r.ok THEN [err |-> "none", t |-> r.t]
               ELSE [err |-> "ValueError", t |-> 0]
    ELSE [err |-> "break", t |-> current]

\* a faulty body that appends every occurrence, the cancelled ones too; the
\* weekly scenario has to tell it from Instance
InstanceKeep(event, aware, current, duration) ==
    <<[event EXCEPT !.start = isoformat(aware, current),
                    !.end = isoformat(aware, current + duration)]>>

\* the instance appended for current_dt, none when its date is cancelled:
\* current_dt.date().isoformat() is looked up in the list as a string (of a
\* stored string the day is compared before the text, the texts of two
\* different days being different)
Instance(event, aware, current, duration) ==
    IF \E c \in SeqToSet(event.cancellation_dates) :
          c.d = DateOf(current) /\ c = date_isoformat(DateOf(current))
    THEN <<>>
    ELSE <<[event EXCEPT !.start = isoformat(aware, current),
                         !.end = isoformat(aware, current + duration)]>>

\* one evaluation of "while current_dt <= recurrence_end_dt" and of the
\* loop body: st is [pc, current, events] with pc "loop" while the loop runs,
\* "done" once it is left, "ValueError" once the body has raised
LoopStep(event, aware, duration, recurrence_end, st) ==
    IF st.pc # "loop" THEN st
    ELSE IF ~(st.current <= recurrence_end) THEN [st EXCEPT !.pc = "done"]
    ELSE LET got == st.events \o Instance(event, aware, st.current, duration)
             nx  == NextOccurrence(event.recurrence, st.current)
         IN  IF nx.err = "break"
               THEN [pc |-> "done", current |-> st.current, events |-> got]
             ELSE IF nx.err # "none"
               THEN [pc |-> nx.err, current |-> st.current, events |-> <<>>]
             ELSE [pc |-> "loop", current |-> nx.t, events |-> got]

\* the model follows the loop for 2^MaxDoublings iterations before it gives
\* it up as unfinished
MaxDoublings == 9

\* 2^n evaluations of the loop, one after the other: 2^(n-1) of them, then
\* 2^(n-1) more on the state the first ones end in
RECURSIVE RecurLoop(_, _, _, _, _, _)
RecurLoop(event, aware, duration, recurrence_end, st, n) ==
    IF n = 0 THEN LoopStep(event, aware, duration, recurrence_end, st)
    ELSE Bind(RecurLoop(event, aware, duration, recurrence_end, st, n - 1),
              LAMBDA mid :
                IF mid.pc # "loop" THEN mid
                ELSE RecurLoop(event, aware, duration, recurrence_end, mid,
                               n - 1))

\* [err, events]: err "none" and the list returned, or the exception raised
generate_recurring_events(event) ==
    IF ~Truthy(event.recurrence) THEN [err |-> "none", events |-> <<event>>]
    ELSE
      LET s  == parse_datetime(event.start)
          e  == parse_datetime(event.end)
          re == parse_datetime(event.recurrence_end)
      IN  IF ~s.ok \/ ~e.ok THEN [err |-> "InvalidFormat", events |-> <<>>]
          ELSE IF s.aware # e.aware THEN [err |-> "TypeError", events |-> <<>>]
          ELSE IF TimeTruthy(event.recurrence_end) /\ ~re.ok
            THEN [err |-> "InvalidFormat", events |-> <<>>]
          ELSE IF TimeTruthy(event.recurrence_end) /\ re.aware # s.aware
            THEN [err |-> "TypeError", events |-> <<>>]
          ELSE Bind(RecurLoop(event, s.aware, e.t - s.t,
                              IF TimeTruthy(event.recurrence_end) THEN re.t
                              ELSE s.t + DefaultRecurrenceDays * SecondsPerDay,
                              [pc |-> "loop", current |-> s.t, events |-> <<>>],
                              MaxDoublings),
                    LAMBDA r :
                      [err |-> IF r.pc = "done" THEN "none"
                               ELSE IF r.pc = "loop" THEN "unfinished" ELSE r.pc,
                       events |-> IF r.pc = "done" THEN r.events ELSE <<>>])

-----------------------------------------------------------------------------
(* Request handlers.  Every handler is one step: the requests are handled   *)
(* one at a time.  resp records the request and what the caller gets back:  *)
(* status "ok" (HTTP 200), "NotFound" (404), "InvalidRange" / "InvalidFormat" *)
(* / "InvalidState" (400, told apart by the detail text), "TypeError" /     *)
(* "ValueError" (an exception no handler catches, HTTP 500).                *)

NoEvent == [id |-> 0]

\* "has_conflicts": len(conflicts) > 0
has_conflicts(conflicts) == Len(conflicts) > 0

\* with_conflicts tells whether the body has the keys "conflicts" and
\* "has_conflicts"; a body without them has an empty list and a flag that
\* reads as false
Reply(op, req, status, event, conflicts, with_conflicts, events) ==
    [op |-> op, req |-> req, status |-> status, event |-> event,
     conflicts |-> conflicts, with_conflicts |-> with_conflicts,
     has_conflicts |-> with_conflicts /\ has_conflicts(conflicts),
     events |-> events, count |-> Len(events)]

Fail(op, req, status) == Reply(op, req, status, NoEvent, <<>>, FALSE, <<>>)

\* CalendarEvent(...).dict() as built by create_event
NewEvent(d, id, seed) ==
    [id |-> id,
     title |-> d.title,
     activity_name |-> d.activity_name,
     description |-> d.description,
     start |-> d.start,
     end |-> d.end,
     recurrence |-> d.recurrence,
     recurrence_end |-> d.recurrence_end,
     room |-> d.room,
     color |-> IF Truthy(d.color) THEN d.color
               ELSE get_activity_color(d.activity_name, seed),
     is_cancelled |-> FALSE,
     cancellation_dates |-> <<>>]

\* "event_data.color or get_activity_color(event_data.activity_name)": the
\* name is hashed only when the request brings no colour
HashAfter(d) ==
    IF Truthy(d.color) THEN {hash_seed} ELSE Salted(hash_seed, d.activity_name)

\* the status create_event ends with, before anything is stored
CreateStatus(d) ==
    LET s == parse_datetime(d.start)
        e == parse_datetime(d.end)
    IN  IF d.activity_name \notin DOMAIN activities THEN "NotFound"
        ELSE IF ~s.ok \/ ~e.ok THEN "InvalidFormat"
        ELSE IF s.aware # e.aware THEN "TypeError"
        ELSE IF e.t <= s.t THEN "InvalidRange"
        ELSE LET c == check_event_conflicts(calendar_events, s, e, d.room, 0)
             IN  IF c.err # "none" THEN c.err ELSE "ok"

\* POST /calendar/events
create_event(d) ==
    LET st == CreateStatus(d)
        c  == check_event_conflicts(calendar_events, parse_datetime(d.start),
                                    parse_datetime(d.end), d.room, 0)
    IN  IF st # "ok"
        THEN /\ resp' = Fail("create", d, st)
             /\ UNCHANGED <<calendar_events, event_id_counter, hash_seed>>
        ELSE \E seed \in HashAfter(d) :
               LET ev == NewEvent(d, event_id_counter, seed)
               IN  /\ hash_seed' = seed
                   /\ calendar_events' =
                         [i \in DOMAIN calendar_events \cup {event_id_counter}
                            |-> IF i = event_id_counter THEN ev
                                ELSE calendar_events[i]]
                   /\ event_id_counter' = event_id_counter + 1
                   /\ resp' = Reply("create", d, "ok", ev, c.conflicts, TRUE,
                                    <<>>)

\* GET /calendar/events/{event_id}
get_event(event_id) ==
    /\ resp' = IF event_id \notin DOMAIN calendar_events
               THEN Fail("get", [event_id |-> event_id], "NotFound")
               ELSE Reply("get", [event_id |-> event_id], "ok",
                          calendar_events[event_id], <<>>, FALSE, <<>>)
    /\ UNCHANGED <<calendar_events, event_id_counter>>

\* a faulty update that assigns every field of the request, the absent ones
\* too; the update frame has to tell it from ApplyUpdate
ApplyUpdateAll(event, u) ==
    [event EXCEPT
       !.title = u.title,
       !.description = u.description,
       !.start = u.start,
       !.end = u.end,
       !.room = u.room,
       !.color = u.color,
       !.is_cancelled = (u.is_cancelled = "True")]

\* the "Update fields" part of update_event: a field of the request that is
\* not None overwrites the stored one
ApplyUpdate(event, u) ==
    [event EXCEPT
       !.title = IF u.title # None THEN u.title ELSE @,
       !.description = IF u.description # None THEN u.description ELSE @,
       !.start = IF u.start.tag # "none" THEN u.start ELSE @,
       !.end = IF u.end.tag # "none" THEN u.end ELSE @,
       !.room = IF u.room # None THEN u.room ELSE @,
       !.color = IF u.color # None THEN u.color ELSE @,
       !.is_cancelled = IF u.is_cancelled # None THEN (u.is_cancelled = "True")
                        ELSE @]

\* the "Validate dates if updated" part of update_event, on the event as
\* already updated: "skip" when the request has no start and no end
UpdateStatus(events, event_id, event, u) ==
    LET s == parse_datetime(event.start)
        e == parse_datetime(event.end)
    IN  IF ~(TimeTruthy(u.start) \/ TimeTruthy(u.end)) THEN "skip"
        ELSE IF ~s.ok \/ ~e.ok THEN "InvalidFormat"
        ELSE IF s.aware # e.aware THEN "TypeError"
        ELSE IF e.t <= s.t THEN "InvalidRange"
        ELSE LET c == check_event_conflicts(events, s, e, event.room, event_id)
             IN  IF c.err # "none" THEN c.err ELSE "ok"

\* PUT /calendar/events/{event_id}: the stored dict is updated in place
\* before the dates are validated
update_event(event_id, u) ==
    LET rq == [event_id |-> event_id, fields |-> u]
    IN
    IF event_id \notin DOMAIN calendar_events
    THEN /\ resp' = Fail("update", rq, "NotFound")
         /\ UNCHANGED <<calendar_events, event_id_counter>>
    ELSE LET ev  == ApplyUpdate(calendar_events[event_id], u)
             evs == [calendar_events EXCEPT ![event_id] = ev]
             st  == UpdateStatus(evs, event_id, ev, u)
             c   == check_event_conflicts(evs, parse_datetime(ev.start),
                                          parse_datetime(ev.end), ev.room,
                                          event_id)
         IN  /\ calendar_events' = evs
             /\ UNCHANGED event_id_counter
             /\ resp' = IF st = "skip"
                          THEN Reply("update", rq, "ok", ev, <<>>, FALSE, <<>>)
                        ELSE IF st = "ok"
                          THEN Reply("update", rq, "ok", ev, c.conflicts, TRUE, <<>>)
                        ELSE Fail("update", rq, st)

\* a faulty delete that hands the deleted id back to the counter; the id
\* property has to tell it from delete_event
delete_event_reuse(event_id) ==
    LET rq == [event_id |-> event_id]
    IN
    IF event_id \notin DOMAIN calendar_events
    THEN /\ resp' = Fail("delete", rq, "NotFound")
         /\ UNCHANGED <<calendar_events, event_id_counter>>
    ELSE /\ calendar_events' =
               [i \in DOMAIN calendar_events \ {event_id} |-> calendar_events[i]]
         /\ event_id_counter' = event_id
         /\ resp' = Reply("delete", rq, "ok", NoEvent, <<>>, FALSE, <<>>)

\* a faulty delete that answers as delete_event does and removes nothing; the
\* delete contract has to tell it from delete_event
delete_event_keep(event_id) ==
    LET rq == [event_id |-> event_id]
    IN
    IF event_id \notin DOMAIN calendar_events
    THEN /\ resp' = Fail("delete", rq, "NotFound")
         /\ UNCHANGED <<calendar_events, event_id_counter>>
    ELSE /\ UNCHANGED <<calendar_events, event_id_counter>>
         /\ resp' = Reply("delete", rq, "ok", NoEvent, <<>>, FALSE, <<>>)

\* DELETE /calendar/events/{event_id}
delete_event(event_id) ==
    LET rq == [event_id |-> event_id]
    IN
    IF event_id \notin DOMAIN calendar_events
    THEN /\ resp' = Fail("delete", rq, "NotFound")
         /\ UNCHANGED <<calendar_events, event_id_counter>>
    ELSE /\ calendar_events' =
               [i \in DOMAIN calendar_events \ {event_id} |-> calendar_events[i]]
         /\ UNCHANGED event_id_counter
         /\ resp' = Reply("delete", rq, "ok", NoEvent, <<>>, FALSE, <<>>)

\* POST /calendar/events/{event_id}/cancel-date
cancel_event_date(event_id, date_str) ==
    LET rq == [event_id |-> event_id, date_str |-> date_str]
    IN
    IF event_id \notin DOMAIN calendar_events
    THEN /\ resp' = Fail("cancel", rq, "NotFound")
         /\ UNCHANGED <<calendar_events, event_id_counter>>
    ELSE IF ~Truthy(calendar_events[event_id].recurrence)
    THEN /\ resp' = Fail("cancel", rq, "InvalidState")
         /\ UNCHANGED <<calendar_events, event_id_counter>>
    ELSE IF ~strptime_ok(date_str)
    THEN /\ resp' = Fail("cancel", rq, "InvalidFormat")
         /\ UNCHANGED <<calendar_events, event_id_counter>>
    ELSE LET old == calendar_events[event_id].cancellation_dates
             new == IF date_str \notin SeqToSet(old)
                    THEN Append(old, date_str) ELSE old
             evs == [calendar_events EXCEPT
                       ![event_id].cancellation_dates = new]
         IN  /\ calendar_events' = evs
             /\ UNCHANGED event_id_counter
             /\ resp' = Reply("cancel", rq, "ok", evs[event_id], <<>>, FALSE, <<>>)

-----------------------------------------------------------------------------
(* get_events *)

\* "for event_id, event in calendar_events.items(): all_events.extend(...)"
RECURSIVE ExpandAll(_, _, _)
ExpandAll(events, ids, all_events) ==
    IF ids = <<>> THEN [err |-> "none", events |-> all_events]
    ELSE Bind(generate_recurring_events(events[Head(ids)]),
              LAMBDA g :
                IF g.err # "none" THEN [err |-> g.err, events |-> <<>>]
                ELSE ExpandAll(events, Tail(ids), all_events \o g.events))

\* what the comparison of one event with the bound of a time filter raises
\* ("none": nothing); lower = TRUE is the start filter, which reads e["end"]
FilterError(e, lower, bound) ==
    LET v == parse_datetime(IF lower THEN e.end ELSE e.start)
    IN  IF ~v.ok THEN "InvalidFormat"
        ELSE IF v.aware # bound.aware THEN "TypeError"
        ELSE "none"

\* [e for e in filtered_events if parse_datetime(e["end"]) >= start_dt], and
\* the same with e["start"] <= end_dt: the first event that raises ends it
FilterByTime(es, lower, bound) ==
    LET bad == {k \in 1 .. Len(es) : FilterError(es[k], lower, bound) # "none"}
    IN  IF bad # {}
        THEN [err |-> FilterError(es[CHOOSE k \in bad : \A j \in bad : k <= j],
                                  lower, bound),
              events |-> <<>>]
        ELSE [err |-> "none",
              events |-> SelectSeq(es,
                           LAMBDA e : IF lower
                                      THEN parse_datetime(e.end).t >= bound.t
                                      ELSE parse_datetime(e.start).t <= bound.t)]

\* the names of the activities whose participants include email
StudentActivities(roster, email) ==
    {name \in DOMAIN roster : email \in SeqToSet(roster[name])}

\* "if start:" and the filter under it, on the events expanded so far
FilterStart(all, start) ==
    IF all.err # "none" \/ ~TimeTruthy(start) THEN all
    ELSE IF ~parse_datetime(start).ok
      THEN [err |-> "InvalidFormat", events |-> <<>>]
    ELSE FilterByTime(all.events, TRUE, parse_datetime(start))

\* "if end:" and the filter under it
FilterEnd(f, end) ==
    IF f.err # "none" \/ ~TimeTruthy(end) THEN f
    ELSE IF ~parse_datetime(end).ok
      THEN [err |-> "InvalidFormat", events |-> <<>>]
    ELSE FilterByTime(f.events, FALSE, parse_datetime(end))

\* "if activity:" and the filter under it
FilterActivity(f, activity) ==
    IF f.err # "none" \/ ~Truthy(activity) THEN f
    ELSE [err |-> "none",
          events |-> SelectSeq(f.events, LAMBDA e : e.activity_name = activity)]

\* "if email:" and the filter under it
FilterEmail(f, roster, email) ==
    IF f.err # "none" \/ ~Truthy(email) THEN f
    ELSE [err |-> "none",
          events |-> SelectSeq(f.events,
                       LAMBDA e : e.activity_name \in
                                  StudentActivities(roster, email))]

\* the body of get_events: [err, events]
ListEvents(events, roster, start, end, activity, email) ==
    Bind(SortedIds(DOMAIN events), LAMBDA ids :
    Bind(ExpandAll(events, ids, <<>>), LAMBDA all :
    Bind(FilterStart(all, start), LAMBDA f1 :
    Bind(FilterEnd(f1, end), LAMBDA f2 :
    Bind(FilterActivity(f2, activity), LAMBDA f3 :
         FilterEmail(f3, roster, email))))))

\* GET /calendar/events
get_events(start, end, activity, email) ==
    LET rq == [start |-> start, end |-> end, activity |-> activity,
               email |-> email]
    IN  /\ resp' = Bind(ListEvents(calendar_events, activities, start, end,
                                   activity, email),
                        LAMBDA r :
                          IF r.err # "none" THEN Fail("list", rq, r.err)
                          ELSE Reply("list", rq, "ok", NoEvent, <<>>, FALSE,
                                     r.events))
        /\ UNCHANGED <<calendar_events, event_id_counter>>

-----------------------------------------------------------------------------
(* Worker threads.  The handlers are plain functions, which the framework    *)
(* runs in a thread pool.  Where requests are handled one at a time no call  *)
(* is ever under way between two steps, and a handler is one step.           *)

Handlers == {1, 2}

NoHandlers == [h \in Handlers |-> [pc |-> "idle"]]

-----------------------------------------------------------------------------
(* The requests the model sends *)

\* the number of creates that may succeed
MaxEvents == 2

\* the number of update requests that may reach a stored event
MaxUpdates == 1

\* activities.json, as the scripts of the repository expect it: the nine
\* activities populate_calendar.py creates events for, Manga Maniacs without
\* participants (test_manga_maniacs.py) and the two participants of Chess
\* Club whose attendance test_attendance.py marks; the file tells the other
\* participants, which no request of the model depends on
InitialActivities ==
    [n \in {"Chess Club", "Programming Class", "Soccer Team",
            "Basketball Team", "Art Club", "Drama Club", "Math Club",
            "Debate Team", "Gym Class", "Manga Maniacs"} |->
       IF n = "Chess Club"
       THEN <<"michael@mergington.edu", "daniel@mergington.edu">>
       ELSE <<>>]

T1530 == DT(2024, 12, 6, 15, 30, 0)
T1700 == DT(2024, 12, 6, 17, 0, 0)
W1530 == DT(2024, 12, 3, 15, 30, 0)
W1630 == DT(2024, 12, 3, 16, 30, 0)
WEnd == DT(2024, 12, 31, 16, 30, 0)

\* test_calendar.py, step 1
BaseCreate ==
    [title |-> "Chess Club Meeting", activity_name |-> "Chess Club",
     description |-> "Weekly chess practice and tournament preparation",
     start |-> Naive(T1530),
     end |-> Naive(T1700), recurrence |-> None, recurrence_end |-> NoTime,
     room |-> "Room 101", color |-> None]

\* test_calendar.py, step 2
RecurringCreate ==
    [title |-> "Programming Class", activity_name |-> "Programming Class",
     description |-> "Learn programming fundamentals",
     start |-> Naive(W1530), end |-> Naive(W1630),
     recurrence |-> "weekly", recurrence_end |-> Naive(WEnd),
     room |-> "Computer Lab", color |-> None]

CreateRequests ==
    {BaseCreate, RecurringCreate,
     [BaseCreate EXCEPT !.activity_name = "Knitting Club", !.end = Naive(T1530)],
     [BaseCreate EXCEPT !.end = Naive(T1530)],
     [BaseCreate EXCEPT !.start = BadTime],
     [BaseCreate EXCEPT !.start = Aware(T1530)]}

NoUpdate ==
    [title |-> None, description |-> None, start |-> NoTime, end |-> NoTime,
     room |-> None, color |-> None, is_cancelled |-> None]

UpdateRequests ==
    {[NoUpdate EXCEPT !.description = "Updated description", !.room = "Room 202"],
     [NoUpdate EXCEPT !.title = "Renamed", !.color = "#ffffff", !.is_cancelled = "True"],
     [NoUpdate EXCEPT !.start = Naive(T1700)],
     [NoUpdate EXCEPT !.start = BadTime],
     [NoUpdate EXCEPT !.end = EmptyTime],
     [NoUpdate EXCEPT !.start = Naive(W1530), !.end = Naive(W1630)]}

\* the ids of the requests: each of them is absent before its create and
\* after its delete
EventIds == 1 .. MaxEvents

DateStrs ==
    {CanonDate(DaysFromCivil(2024, 12, 10)), BadDate}

ListRequests ==
    {[start |-> Naive(DT(2024, 12, 1, 0, 0, 0)),
      end |-> Naive(DT(2024, 12, 31, 23, 59, 59)), activity |-> None,
      email |-> None]}

-----------------------------------------------------------------------------
(* The state machine *)

\* a process that has just started: nothing is stored and no name has been
\* hashed, so that its salt may still give each name any hash value
Init ==
    /\ calendar_events = <<>>
    /\ event_id_counter = 1
    /\ activities = InitialActivities
    /\ hash_seed = NoHashes
    /\ n_updates = 0
    /\ handlers = NoHandlers
    /\ resp = Fail("start", [event_id |-> 0], "ok")

Create ==
    /\ \E d \in CreateRequests :
          /\ event_id_counter <= MaxEvents \/ CreateStatus(d) # "ok"
          /\ create_event(d)
    /\ UNCHANGED <<activities, n_updates, handlers>>

Get ==
    /\ \E id \in EventIds : get_event(id)
    /\ UNCHANGED <<activities, hash_seed, n_updates, handlers>>

Update ==
    /\ \E id \in EventIds, u \in UpdateRequests :
          /\ n_updates < MaxUpdates \/ id \notin DOMAIN calendar_events
          /\ update_event(id, u)
          /\ n_updates' = IF id \in DOMAIN calendar_events THEN n_updates + 1
                          ELSE n_updates
    /\ UNCHANGED <<activities, hash_seed, handlers>>

Delete ==
    /\ \E id \in EventIds : delete_event(id)
    /\ UNCHANGED <<activities, hash_seed, n_updates, handlers>>

CancelDate ==
    /\ \E id \in EventIds, ds \in DateStrs : cancel_event_date(id, ds)
    /\ UNCHANGED <<activities, hash_seed, n_updates, handlers>>

List ==
    /\ \E q \in ListRequests : get_events(q.start, q.end, q.activity, q.email)
    /\ UNCHANGED <<activities, hash_seed, n_updates, handlers>>

Next == Create \/ Get \/ Update \/ Delete \/ CancelDate \/ List

Spec == Init /\ [][Next]_vars

-----------------------------------------------------------------------------
(* Recurrence expansion and per-date cancellation, on one event drawn from  *)
(* a wide range of starts, recurrences and recurrence ends, next to which   *)
(* the weekly class of test_calendar.py may be created.                     *)

\* the length of the weekly class of test_calendar.py
OneHour == W1630 - W1530

ExpandStarts ==
    {DT(2024, 12, 3, 15, 30, 0),     \* the weekly class of test_calendar.py
     DT(2024, 1, 31, 10, 0, 0),      \* a day of month that February lacks
     DT(2024, 11, 15, 9, 0, 0)}      \* monthly steps cross the end of the year

Recurrences == {None, "", "daily", "weekly", "monthly", "yearly"}

\* the recurrence ends tried with a start: none, the empty string, four weeks
\* and a day after the start, the day before the start, a malformed string and
\* a timestamp of the other kind
RecurrenceEnds(start) ==
    {NoTime, EmptyTime, Naive(start + 29 * SecondsPerDay),
     Naive(start - SecondsPerDay), BadTime, Aware(start + 29 * SecondsPerDay)}

ExpandRequests ==
    {[title |-> "Class", activity_name |-> "Math Club", description |-> None,
      start |-> Naive(st), end |-> Naive(st + OneHour), recurrence |-> rc,
      recurrence_end |-> re, room |-> "Room 7", color |-> "#123456"] :
       st \in ExpandStarts, rc \in Recurrences,
       re \in UNION {RecurrenceEnds(x) : x \in ExpandStarts}}

\* the dates tried: one day in its two spellings, 2024-12-03 and 2024-12-3,
\* and a string that is no date
ExpandDateStrs ==
    {CanonDate(DaysFromCivil(2024, 12, 3)),
     UnpaddedDate(DaysFromCivil(2024, 12, 3), TRUE, FALSE), BadDate}

\* the stored event was created with a colour of its own, so that the
\* process has hashed no name yet
InitExpand ==
    /\ activities = InitialActivities
    /\ hash_seed = NoHashes
    /\ n_updates = 0
    /\ handlers = NoHandlers
    /\ event_id_counter = 2
    /\ \E d \in ExpandRequests :
          /\ d.recurrence_end \in RecurrenceEnds(d.start.t)
          /\ calendar_events = [i \in {1} |-> NewEvent(d, 1, hash_seed)]
          /\ resp = Reply("create", d, "ok", NewEvent(d, 1, hash_seed),
                          <<>>, TRUE, <<>>)

CreateClass ==
    /\ event_id_counter <= MaxEvents
    /\ create_event(RecurringCreate)
    /\ UNCHANGED <<activities, n_updates, handlers>>

CancelClassDate ==
    /\ \E id \in EventIds, ds \in ExpandDateStrs : cancel_event_date(id, ds)
    /\ UNCHANGED <<activities, hash_seed, n_updates, handlers>>

ListDecember ==
    /\ \E q \in ListRequests : get_events(q.start, q.end, q.activity, q.email)
    /\ UNCHANGED <<activities, hash_seed, n_updates, handlers>>

NextExpand == CreateClass \/ CancelClassDate \/ ListDecember

SpecExpand == InitExpand /\ [][NextExpand]_vars

-----------------------------------------------------------------------------
(* Conflict detection, on stores drawn around the two events of the         *)
(* conflict test of test_calendar.py: the chess meeting of 15:30-17:00 in   *)
(* Room 101 and a second event that overlaps it or starts when it ends.     *)
(* Candidates are created next to them, and the times of a stored event are *)
(* sent again by an update, which scans the store for it.                   *)

T1500 == DT(2024, 12, 6, 15, 0, 0)
T1600 == DT(2024, 12, 6, 16, 0, 0)
T1730 == DT(2024, 12, 6, 17, 30, 0)
OneWeek == DaysPerWeek * SecondsPerDay

\* test_calendar.py, step 8
MathCreate ==
    [title |-> "Math Club", activity_name |-> "Math Club",
     description |-> "Math practice",
     start |-> Naive(T1600), end |-> Naive(T1730), recurrence |-> None,
     recurrence_end |-> NoTime, room |-> "Room 101", color |-> None]

Rooms == {"Room 101", "Room 202", None}

\* the recurrence ends of the stored chess meeting: none, the end of the
\* year's last class, and the day before the meeting itself, which leaves the
\* meeting without any occurrence
StoredRecurrenceEnds ==
    {NoTime, Naive(WEnd), Naive(T1530 - SecondsPerDay)}

\* the chess meeting as stored by a process whose hash function is seed: with
\* or without a room, alone or weekly, with or without a recurrence end,
\* cancelled as a whole or not, and, when weekly, with or without its first
\* date cancelled
StoredFirst(seed) ==
    {[NewEvent([BaseCreate EXCEPT !.room = rm, !.recurrence = rc,
                                  !.recurrence_end = re], 1, seed)
        EXCEPT !.is_cancelled = ic, !.cancellation_dates = cd] :
       rm \in {"Room 101", None}, rc \in {None, "weekly"},
       re \in StoredRecurrenceEnds, ic \in BOOLEAN,
       cd \in {<<>>, <<CanonDate(DateOf(T1530))>>}}

\* the second stored event: the math club of step 8, or one that starts when
\* the chess meeting ends, in any room, cancelled as a whole or not
StoredSecond(seed) ==
    {[NewEvent([MathCreate EXCEPT !.start = Naive(st), !.room = rm], 2,
               seed)
        EXCEPT !.is_cancelled = ic] :
       st \in {T1600, T1700}, rm \in Rooms, ic \in BOOLEAN}

\* the candidates: the math club of step 8, one that starts when the chess
\* meeting ends, one that ends when it starts, and the math club a week
\* later, each in a room, in another, without a room and with an empty room
\* string; and the math club with timestamps that carry a UTC offset
ConflictCandidates ==
    {[MathCreate EXCEPT !.start = Naive(iv[1]), !.end = Naive(iv[2]),
                        !.room = rm] :
       iv \in {<<T1600, T1730>>, <<T1700, T1730>>, <<T1500, T1530>>,
               <<T1600 + OneWeek, T1730 + OneWeek>>},
       rm \in Rooms \cup {""}}
    \cup {[MathCreate EXCEPT !.start = Aware(T1600), !.end = Aware(T1730)]}

\* an update that sends the stored start and end of the event again
SameTimes(id) ==
    IF id \in DOMAIN calendar_events
    THEN [NoUpdate EXCEPT !.start = calendar_events[id].start,
                          !.end = calendar_events[id].end]
    ELSE [NoUpdate EXCEPT !.start = Naive(T1600), !.end = Naive(T1730)]

\* the stored events were created without a colour: the process has hashed
\* the names of their activities, to whatever values its salt gives them
InitConflicts ==
    /\ activities = InitialActivities
    /\ n_updates = 0
    /\ handlers = NoHandlers
    /\ resp = Fail("start", [event_id |-> 0], "ok")
    /\ \E first \in Salted(NoHashes, BaseCreate.activity_name) :
          \E a \in StoredFirst(first) :
             /\ \/ Truthy(a.recurrence)
                \/ a.cancellation_dates = <<>> /\ a.recurrence_end = NoTime
             /\ \/ /\ calendar_events = [i \in {1} |-> a]
                   /\ event_id_counter = 2
                   /\ hash_seed = first
                \/ \E second \in Salted(first, MathCreate.activity_name) :
                      \E b \in StoredSecond(second) :
                         /\ calendar_events =
                               [i \in {1, 2} |-> IF i = 1 THEN a ELSE b]
                         /\ event_id_counter = 3
                         /\ hash_seed = second

CreateCandidate ==
    /\ \E d \in ConflictCandidates :
          /\ event_id_counter <= MaxEvents \/ CreateStatus(d) # "ok"
          /\ create_event(d)
    /\ UNCHANGED <<activities, n_updates, handlers>>

Reschedule ==
    /\ \E id \in EventIds : update_event(id, SameTimes(id))
    /\ UNCHANGED <<activities, hash_seed, n_updates, handlers>>

NextConflicts == CreateCandidate \/ Reschedule

SpecConflicts == InitConflicts /\ [][NextConflicts]_vars

-----------------------------------------------------------------------------
(* Listing: the events of test_calendar.py and a monthly one are created,   *)
(* dates of the recurring ones are cancelled, a student signs up and        *)
(* unregisters, and the calendar is listed under every kind of filter.      *)

\* POST /activities/{activity_name}/signup
signup_for_activity(activity_name, email) ==
    LET rq == [activity_name |-> activity_name, email |-> email]
    IN  IF activity_name \notin DOMAIN activities
        THEN resp' = Fail("signup", rq, "NotFound") /\ UNCHANGED activities
        ELSE IF email \in SeqToSet(activities[activity_name])
        THEN resp' = Fail("signup", rq, "InvalidState") /\ UNCHANGED activities
        ELSE /\ activities' = [activities EXCEPT
                                 ![activity_name] = Append(@, email)]
             /\ resp' = Fail("signup", rq, "ok")

\* list.remove(x): the list without the first of its items equal to x
RECURSIVE list_remove(_, _)
list_remove(q, x) ==
    IF q = <<>> THEN <<>>
    ELSE IF Head(q) = x THEN Tail(q)
    ELSE <<Head(q)>> \o list_remove(Tail(q), x)

\* DELETE /activities/{activity_name}/unregister
unregister_from_activity(activity_name, email) ==
    LET rq == [activity_name |-> activity_name, email |-> email]
    IN  IF activity_name \notin DOMAIN activities
        THEN resp' = Fail("unregister", rq, "NotFound") /\ UNCHANGED activities
        ELSE IF email \notin SeqToSet(activities[activity_name])
        THEN /\ resp' = Fail("unregister", rq, "InvalidState")
             /\ UNCHANGED activities
        ELSE /\ activities' =
                   [activities EXCEPT
                      ![activity_name] = list_remove(@, email)]
             /\ resp' = Fail("unregister", rq, "ok")

\* a date without a time, "2024-12-31", which datetime.fromisoformat reads as
\* the midnight that begins the day; the model only sends such strings where
\* the code parses them
DateOnly(y, m, d) == Naive(DT(y, m, d, 0, 0, 0))

\* the weekly class of test_calendar.py with its recurrence end of 16:30 and
\* with the date alone, the chess meeting, and a monthly event that begins
\* on a 31st
ListedCreates ==
    {RecurringCreate,
     [RecurringCreate EXCEPT !.recurrence_end = DateOnly(2024, 12, 31)],
     BaseCreate,
     [MathCreate EXCEPT !.start = Naive(DT(2024, 1, 31, 10, 0, 0)),
                        !.end = Naive(DT(2024, 1, 31, 11, 0, 0)),
                        !.recurrence = "monthly", !.color = "#123456"]}

\* a participant of Chess Club
Students == {"michael@mergington.edu"}

\* the windows: none, December as test_calendar.py asks for it, December by
\* dates alone, a window that begins when the first class ends and ends when
\* the third class begins, and one that begins a second later and ends a
\* second earlier
ListWindows ==
    {<<NoTime, NoTime>>,
     <<Naive(DT(2024, 12, 1, 0, 0, 0)), Naive(DT(2024, 12, 31, 23, 59, 59))>>,
     <<DateOnly(2024, 12, 1), DateOnly(2024, 12, 31)>>,
     <<Naive(W1630), Naive(W1530 + 2 * OneWeek)>>,
     <<Naive(W1630 + 1), Naive(W1530 + 2 * OneWeek - 1)>>}

ListQueries ==
    {[start |-> w[1], end |-> w[2], activity |-> a, email |-> e] :
       w \in ListWindows, a \in {None, "Programming Class"},
       e \in {None} \cup Students}

InitList ==
    /\ calendar_events = <<>>
    /\ event_id_counter = 1
    /\ activities = InitialActivities
    /\ hash_seed = NoHashes
    /\ n_updates = 0
    /\ handlers = NoHandlers
    /\ resp = Fail("start", [event_id |-> 0], "ok")

CreateListed ==
    /\ event_id_counter <= MaxEvents
    /\ \E d \in ListedCreates : create_event(d)
    /\ UNCHANGED <<activities, n_updates, handlers>>

CancelListed ==
    /\ \E id \in EventIds :
          cancel_event_date(id, CanonDate(DaysFromCivil(2024, 12, 10)))
    /\ UNCHANGED <<activities, hash_seed, n_updates, handlers>>

Signup ==
    /\ \E e \in Students : signup_for_activity("Programming Class", e)
    /\ UNCHANGED <<calendar_events, event_id_counter, hash_seed, n_updates,
                   handlers>>

Unregister ==
    /\ \E e \in Students : unregister_from_activity("Programming Class", e)
    /\ UNCHANGED <<calendar_events, event_id_counter, hash_seed, n_updates,
                   handlers>>

ListQuery ==
    /\ \E q \in ListQueries : get_events(q.start, q.end, q.activity, q.email)
    /\ UNCHANGED <<activities, hash_seed, n_updates, handlers>>

NextList == CreateListed \/ CancelListed \/ Signup \/ Unregister \/ ListQuery

SpecList == InitList /\ [][NextList]_vars

-----------------------------------------------------------------------------
(* Two create requests handled by two worker threads at once.  create_event *)
(* holds no lock, and a thread can be switched out between any two reads or *)
(* writes of the shared store and counter: between two items of the scan of *)
(* calendar_events.items(), before the counter is read for the event's id,  *)
(* between the read of the counter for the store key and the store, and     *)
(* between the read and the write of "event_id_counter += 1".  The steps    *)
(* are the finest that an interpreter takes; each reads or writes the       *)
(* shared state once.  The process starts with a random hash salt.          *)

\* the creates of test_calendar.py, steps 1 and 8, and one that is rejected
RaceCreates ==
    {BaseCreate, MathCreate, [BaseCreate EXCEPT !.end = Naive(T1530)]}

\* the status of create_event before the conflict scan: the checks up to
\* "End time must be after start time"
CreateChecks(d) ==
    LET s == parse_datetime(d.start)
        e == parse_datetime(d.end)
    IN  IF d.activity_name \notin DOMAIN activities THEN "NotFound"
        ELSE IF ~s.ok \/ ~e.ok THEN "InvalidFormat"
        ELSE IF s.aware # e.aware THEN "TypeError"
        ELSE IF e.t <= s.t THEN "InvalidRange"
        ELSE "ok"

\* create_event up to the "for" of check_event_conflicts: the checks, and the
\* iterator over calendar_events.items(), which keeps the size the dict has
\* now (used) and the number of items it has yielded (pos)
CreateCheck(h) ==
    /\ handlers[h].pc = "idle"
    /\ \E d \in RaceCreates :
          IF CreateChecks(d) # "ok"
          THEN /\ handlers' = [handlers EXCEPT ![h] = [pc |-> "failed"]]
               /\ resp' = Fail("create", d, CreateChecks(d))
          ELSE /\ handlers' =
                     [handlers EXCEPT
                        ![h] = [pc |-> "scan", req |-> d,
                                used |-> Cardinality(DOMAIN calendar_events),
                                pos |-> 0, conflicts |-> <<>>]]
               /\ UNCHANGED resp
    /\ UNCHANGED <<calendar_events, event_id_counter, activities, hash_seed,
                   n_updates>>

\* one step of the iterator and the loop body on the item it yields.  The
\* iterator first compares the dict's size with the size it has kept and
\* raises RuntimeError ("dictionary changed size during iteration") when
\* another call has stored an event meanwhile; the call then ends in an
\* HTTP 500 and stores nothing.  A value stored under a key the dict already
\* holds leaves the size, and the iterator yields the new value.
CreateScan(h) ==
    /\ handlers[h].pc = "scan"
    /\ LET hd  == handlers[h]
           ids == SortedIds(DOMAIN calendar_events)
       IN  IF Cardinality(DOMAIN calendar_events) # hd.used
           THEN /\ handlers' = [handlers EXCEPT ![h] = [pc |-> "failed"]]
                /\ resp' = Fail("create", hd.req, "RuntimeError")
           ELSE IF hd.pos = hd.used
           THEN /\ handlers' =
                      [handlers EXCEPT
                         ![h] = [pc |-> "scanned", req |-> hd.req,
                                 conflicts |-> hd.conflicts]]
                /\ UNCHANGED resp
           ELSE LET r == ConflictStep(parse_datetime(hd.req.start),
                                      parse_datetime(hd.req.end), hd.req.room,
                                      0, ids[hd.pos + 1],
                                      calendar_events[ids[hd.pos + 1]])
                IN  IF r.err # "none"
                    THEN /\ handlers' =
                               [handlers EXCEPT ![h] = [pc |-> "failed"]]
                         /\ resp' = Fail("create", hd.req, r.err)
                    ELSE /\ handlers' =
                               [handlers EXCEPT
                                  ![h].pos = hd.pos + 1,
                                  ![h].conflicts = hd.conflicts \o r.c]
                         /\ UNCHANGED resp
    /\ UNCHANGED <<calendar_events, event_id_counter, activities, hash_seed,
                   n_updates>>

\* "event = CalendarEvent(id=event_id_counter, ...)": the first read of the
\* counter, and the colour
CreateId(h) ==
    /\ handlers[h].pc = "scanned"
    /\ \E seed \in HashAfter(handlers[h].req) :
          /\ hash_seed' = seed
          /\ handlers' =
                [handlers EXCEPT
                   ![h] = [pc |-> "built", req |-> handlers[h].req,
                           event |-> NewEvent(handlers[h].req,
                                              event_id_counter, seed),
                           conflicts |-> handlers[h].conflicts]]
    /\ UNCHANGED <<calendar_events, event_id_counter, activities, n_updates,
                   resp>>

\* a faulty read of the store key as the id after the counter's, as if the
\* counter were incremented before the store; the outcome of the race has to
\* tell it from CreateKey
CreateKeyNext(h) ==
    /\ handlers[h].pc = "built"
    /\ handlers' = [handlers EXCEPT
                      ![h] = [pc |-> "keyed", req |-> handlers[h].req,
                              event |-> handlers[h].event,
                              conflicts |-> handlers[h].conflicts,
                              key |-> event_id_counter + 1]]
    /\ UNCHANGED <<calendar_events, event_id_counter, activities, hash_seed,
                   n_updates, resp>>

\* "calendar_events[event_id_counter] = ...", the subscript: the second read
\* of the counter
CreateKey(h) ==
    /\ handlers[h].pc = "built"
    /\ handlers' = [handlers EXCEPT
                      ![h] = [pc |-> "keyed", req |-> handlers[h].req,
                              event |-> handlers[h].event,
                              conflicts |-> handlers[h].conflicts,
                              key |-> event_id_counter]]
    /\ UNCHANGED <<calendar_events, event_id_counter, activities, hash_seed,
                   n_updates, resp>>

\* "calendar_events[event_id_counter] = event.dict()", the store under the
\* key read before
CreateStore(h) ==
    /\ handlers[h].pc = "keyed"
    /\ calendar_events' =
          [i \in DOMAIN calendar_events \cup {handlers[h].key} |->
             IF i = handlers[h].key THEN handlers[h].event
             ELSE calendar_events[i]]
    /\ handlers' = [handlers EXCEPT
                      ![h] = [pc |-> "stored", req |-> handlers[h].req,
                              event |-> handlers[h].event,
                              conflicts |-> handlers[h].conflicts]]
    /\ UNCHANGED <<event_id_counter, activities, hash_seed, n_updates, resp>>

\* "event_id_counter += 1", the read of the counter
CreateLoad(h) ==
    /\ handlers[h].pc = "stored"
    /\ handlers' = [handlers EXCEPT
                      ![h] = [pc |-> "loaded", req |-> handlers[h].req,
                              event |-> handlers[h].event,
                              conflicts |-> handlers[h].conflicts,
                              counter |-> event_id_counter]]
    /\ UNCHANGED <<calendar_events, event_id_counter, activities, hash_seed,
                   n_updates, resp>>

\* "event_id_counter += 1", the write of the value read plus one, and the
\* return
CreateIncrement(h) ==
    /\ handlers[h].pc = "loaded"
    /\ event_id_counter' = handlers[h].counter + 1
    /\ handlers' = [handlers EXCEPT
                      ![h] = [pc |-> "done", req |-> handlers[h].req,
                              event |-> handlers[h].event,
                              conflicts |-> handlers[h].conflicts]]
    /\ resp' = Reply("create", handlers[h].req, "ok", handlers[h].event,
                     handlers[h].conflicts, TRUE, <<>>)
    /\ UNCHANGED <<calendar_events, activities, hash_seed, n_updates>>

\* the two calls arrive at a process that has just started, or at one that
\* has stored the weekly class of test_calendar.py
InitRace ==
    /\ activities = InitialActivities
    /\ n_updates = 0
    /\ handlers = NoHandlers
    /\ resp = Fail("start", [event_id |-> 0], "ok")
    /\ \/ /\ calendar_events = <<>>
          /\ event_id_counter = 1
          /\ hash_seed = NoHashes
       \/ /\ event_id_counter = 2
          /\ \E seed \in Salted(NoHashes, RecurringCreate.activity_name) :
                /\ hash_seed = seed
                /\ calendar_events =
                      [i \in {1} |-> NewEvent(RecurringCreate, 1, seed)]

NextRace ==
    \E h \in Handlers :
       \/ CreateCheck(h)
       \/ CreateScan(h)
       \/ CreateId(h)
       \/ CreateKey(h)
       \/ CreateStore(h)
       \/ CreateLoad(h)
       \/ CreateIncrement(h)

SpecRace == InitRace /\ [][NextRace]_vars

-----------------------------------------------------------------------------
(* Properties of the event store *)

WellFormed(s) == s.tag \in {"naive", "aware"}

\* start and end are timestamps of the same kind
Comparable(s, e) == WellFormed(s) /\ WellFormed(e) /\ s.tag = e.tag

EndAfterStart(ev) == Comparable(ev.start, ev.end) /\ ev.end.t > ev.start.t

StoreUnchanged == UNCHANGED <<calendar_events, event_id_counter>>

\* every stored event but those of ids is the same before and after the step
OthersUnchanged(ids) ==
    \A j \in (DOMAIN calendar_events \cup DOMAIN calendar_events') \ ids :
       /\ j \in DOMAIN calendar_events
       /\ j \in DOMAIN calendar_events'
       /\ calendar_events'[j] = calendar_events[j]

\* C1: ids are assigned sequentially from 1, one per successful create, and
\* never twice: the stored ids lie below the counter and each event is stored
\* under its own id; a successful create takes the counter's value as its id,
\* a fresh one, and adds one to the counter; no other step (a rejected create,
\* an update, a delete, a cancel-date, a read) changes the counter, and no
\* step adds an id other than the one a create assigns.
C1_IdsInRange ==
    /\ event_id_counter >= 1
    /\ \A i \in DOMAIN calendar_events :
          i \in 1 .. (event_id_counter - 1) /\ calendar_events[i].id = i

C1_SequentialIds ==
    /\ Init => event_id_counter = 1
    /\ [](C1_IdsInRange)
    /\ [][ /\ (resp'.op = "create" /\ resp'.status = "ok") =>
                /\ resp'.event.id = event_id_counter
                /\ event_id_counter \notin DOMAIN calendar_events
                /\ DOMAIN calendar_events' =
                      DOMAIN calendar_events \cup {event_id_counter}
                /\ event_id_counter' = event_id_counter + 1
           /\ ~(resp'.op = "create" /\ resp'.status = "ok") =>
                /\ event_id_counter' = event_id_counter
                /\ DOMAIN calendar_events' \subseteq DOMAIN calendar_events
         ]_vars

\* a second event is created after the first one was deleted: it gets id 2
C1_Witness ==
    /\ resp.op = "create" /\ resp.status = "ok" /\ resp.event.id = 2
    /\ DOMAIN calendar_events = {2}

\* C2: every stored event has end > start, whatever the outcome of the
\* requests handled so far.
C2_EndAfterStart ==
    \A i \in DOMAIN calendar_events : EndAfterStart(calendar_events[i])

\* the new event of a successful create of request d, seen from outside: the
\* request's fields under the counter's id, not cancelled, no cancelled date
StoredAsRequested(d) ==
    LET ev == calendar_events'[event_id_counter]
    IN  /\ event_id_counter \notin DOMAIN calendar_events
        /\ DOMAIN calendar_events' = DOMAIN calendar_events \cup {event_id_counter}
        /\ OthersUnchanged({event_id_counter})
        /\ event_id_counter' = event_id_counter + 1
        /\ ev.id = event_id_counter
        /\ ev.is_cancelled = FALSE
        /\ ev.cancellation_dates = <<>>
        /\ ev.title = d.title /\ ev.activity_name = d.activity_name
        /\ ev.description = d.description
        /\ ev.start = d.start /\ ev.end = d.end
        /\ ev.recurrence = d.recurrence /\ ev.recurrence_end = d.recurrence_end
        /\ ev.room = d.room
        /\ resp'.event = ev

\* C3: a create fails NotFound when its activity is not in the roster and
\* InvalidRange when its end is not after its start, both times leaving the
\* store and the counter as they are; every other create stores exactly one
\* new event under the next id, not cancelled and with no cancelled date, and
\* changes no other event.
C3_CreateContract ==
    [][ resp'.op = "create" =>
          LET d == resp'.req
          IN  IF d.activity_name \notin DOMAIN activities
                THEN resp'.status = "NotFound" /\ StoreUnchanged
              ELSE IF Comparable(d.start, d.end) /\ d.end.t <= d.start.t
                THEN resp'.status = "InvalidRange" /\ StoreUnchanged
              ELSE resp'.status = "ok" /\ StoredAsRequested(d)
      ]_vars

\* C4: a successful update sets the fields of the request that are present
\* among title, description, start, end, room, color and is_cancelled, keeps
\* the stored value of every absent one, never changes id, activity_name,
\* recurrence, recurrence_end or cancellation_dates, and changes neither
\* another event nor the id counter.
C4_UpdateFrame ==
    [][ (resp'.op = "update" /\ resp'.status = "ok") =>
          LET id  == resp'.req.event_id
              u   == resp'.req.fields
              old == calendar_events[id]
              new == calendar_events'[id]
          IN  /\ id \in DOMAIN calendar_events
              /\ DOMAIN calendar_events' = DOMAIN calendar_events
              /\ OthersUnchanged({id})
              /\ event_id_counter' = event_id_counter
              /\ new.title = (IF u.title = None THEN old.title ELSE u.title)
              /\ new.description =
                    (IF u.description = None THEN old.description
                     ELSE u.description)
              /\ new.start = (IF u.start = NoTime THEN old.start ELSE u.start)
              /\ new.end = (IF u.end = NoTime THEN old.end ELSE u.end)
              /\ new.room = (IF u.room = None THEN old.room ELSE u.room)
              /\ new.color = (IF u.color = None THEN old.color ELSE u.color)
              /\ new.is_cancelled =
                    (IF u.is_cancelled = None THEN old.is_cancelled
                     ELSE u.is_cancelled = "True")
              /\ new.id = old.id
              /\ new.activity_name = old.activity_name
              /\ new.recurrence = old.recurrence
              /\ new.recurrence_end = old.recurrence_end
              /\ new.cancellation_dates = old.cancellation_dates
              /\ resp'.event = new
      ]_vars

\* the recurring event, with a cancelled date, got a new room and description
\* while another event is stored
C4_Witness ==
    /\ resp.op = "update" /\ resp.status = "ok"
    /\ resp.req.fields.room = "Room 202"
    /\ Cardinality(DOMAIN calendar_events) = 2
    /\ resp.event.cancellation_dates # <<>>
    /\ resp.event.room = "Room 202"

\* C5: delete of a stored id removes that event and nothing else: the id is
\* no longer stored, every other event is stored as before and the counter is
\* unchanged; delete of an absent id fails NotFound and changes nothing; get
\* fails NotFound exactly for the ids that are not stored and otherwise
\* returns the stored event; every event list holds occurrences of stored
\* ids only, so none of a deleted id; and a deleted id never comes back, a
\* new id being the counter's value, above every id assigned before.
C5_DeleteContract ==
    [][ /\ resp'.op = "delete" =>
             LET id == resp'.req.event_id
             IN  IF id \in DOMAIN calendar_events
                 THEN /\ resp'.status = "ok"
                      /\ DOMAIN calendar_events' = DOMAIN calendar_events \ {id}
                      /\ OthersUnchanged({id})
                      /\ event_id_counter' = event_id_counter
                 ELSE resp'.status = "NotFound" /\ StoreUnchanged
        /\ resp'.op = "get" =>
             /\ resp'.status = "NotFound" <=>
                   resp'.req.event_id \notin DOMAIN calendar_events
             /\ resp'.status = "ok" =>
                   resp'.event = calendar_events[resp'.req.event_id]
             /\ StoreUnchanged
        /\ resp'.op = "list" =>
             \A k \in 1 .. Len(resp'.events) :
                resp'.events[k].id \in DOMAIN calendar_events
        /\ \A i \in DOMAIN calendar_events' \ DOMAIN calendar_events :
             i = event_id_counter /\ event_id_counter' > i
      ]_vars

\* event 1 was deleted while the recurring event 2 stays, and the list of
\* events that follows shows the occurrences of event 2 only
C5_Witness ==
    /\ resp.op = "list" /\ resp.status = "ok"
    /\ DOMAIN calendar_events = {2}
    /\ Len(resp.events) > 1
    /\ \A k \in 1 .. Len(resp.events) : resp.events[k].id = 2

-----------------------------------------------------------------------------
(* Properties of cancel-date and of the recurrence expansion *)

\* the <<start, end>> pairs of a list of occurrences, in the order of the list
Times(es) == [k \in 1 .. Len(es) |-> <<es[k].start, es[k].end>>]

\* C6 as stated: cancel-date fails NotFound for an id that is not stored,
\* else InvalidState for an event without recurrence, else InvalidFormat for a
\* date string that is not a zero-padded YYYY-MM-DD date, each time leaving
\* the store unchanged; any other cancel-date succeeds.
C6_CancelErrors ==
    [][ resp'.op = "cancel" =>
          LET id == resp'.req.event_id
              ds == resp'.req.date_str
          IN  IF id \notin DOMAIN calendar_events
                THEN resp'.status = "NotFound" /\ StoreUnchanged
              ELSE IF ~Truthy(calendar_events[id].recurrence)
                THEN resp'.status = "InvalidState" /\ StoreUnchanged
              ELSE IF ds.tag # "canon"
                THEN resp'.status = "InvalidFormat" /\ StoreUnchanged
              ELSE resp'.status = "ok"
      ]_vars

\* no two entries of a list of cancelled dates name the same day
NoDateTwice(q) == \A i, j \in 1 .. Len(q) : i # j => q[i].d # q[j].d

\* C7: cancel-date is idempotent: on a recurring event, a cancel-date of a
\* date that is already among the cancelled dates succeeds and changes nothing
\* in the store, whatever was cancelled in between; one of a date that is not
\* yet there appends it and changes nothing else; so no list of cancelled
\* dates ever holds the same date twice.
C7_CancelIdempotent ==
    /\ [](\A i \in DOMAIN calendar_events :
             NoDateTwice(calendar_events[i].cancellation_dates))
    /\ [][ (/\ resp'.op = "cancel"
            /\ resp'.req.event_id \in DOMAIN calendar_events
            /\ Truthy(calendar_events[resp'.req.event_id].recurrence)
            /\ strptime_ok(resp'.req.date_str)) =>
             LET id  == resp'.req.event_id
                 ds  == resp'.req.date_str
                 old == calendar_events[id]
             IN  /\ resp'.status = "ok"
                 /\ event_id_counter' = event_id_counter
                 /\ DOMAIN calendar_events' = DOMAIN calendar_events
                 /\ OthersUnchanged({id})
                 /\ IF \E c \in SeqToSet(old.cancellation_dates) : c.d = ds.d
                    THEN calendar_events'[id] = old
                    ELSE calendar_events'[id] =
                           [old EXCEPT !.cancellation_dates = Append(@, ds)]
                 /\ resp'.event = calendar_events'[id]
         ]_vars

\* C8: after a successful cancel-date of date d on a recurring event whose
\* expansion succeeds, the expansion of that event is the one before without
\* the occurrence that starts on d, and every other event is unchanged.
C8_CancelRemovesDate ==
    [][ (resp'.op = "cancel" /\ resp'.status = "ok") =>
          LET id     == resp'.req.event_id
              ds     == resp'.req.date_str
              before == generate_recurring_events(calendar_events[id])
              after  == generate_recurring_events(calendar_events'[id])
          IN  /\ OthersUnchanged({id})
              /\ before.err = "none" =>
                   /\ after.err = "none"
                   /\ Times(after.events) =
                        SelectSeq(Times(before.events),
                                  LAMBDA p : DateOf(p[1].t) # ds.d)
      ]_vars

\* the start of the k-th occurrence of the reference definition: start + k*P,
\* for monthly the same day of month and time of day k months later (not ok
\* when that month has no such day)
RefStart(recurrence, start, k) ==
    IF recurrence = "daily" THEN [ok |-> TRUE, t |-> start + k * SecondsPerDay]
    ELSE IF recurrence = "weekly"
      THEN [ok |-> TRUE, t |-> start + k * DaysPerWeek * SecondsPerDay]
    ELSE LET c == CivilFromDays(DateOf(start))
             n == c.y * 12 + (c.m - 1) + k
         IN  ReplaceMonth(start, n \div 12, (n % 12) + 1)

\* the shortest period of a recurrence, in days
MinPeriodDays(recurrence) ==
    IF recurrence = "daily" THEN 1
    ELSE IF recurrence = "weekly" THEN DaysPerWeek
    ELSE 28

\* the reference definition of expand, as <<start, end>> pairs: the event's
\* own pair when it does not recur; else, in increasing order, one pair for
\* each k >= 0 with start + k*P <= E whose date is not cancelled, E being
\* recurrence_end, or start + 365 days without one
RefOccurrences(ev) ==
    IF ~Truthy(ev.recurrence) THEN <<(<<ev.start, ev.end>>)>>
    ELSE
      LET s  == ev.start.t
          E  == IF TimeTruthy(ev.recurrence_end) THEN ev.recurrence_end.t
                ELSE s + DefaultRecurrenceDays * SecondsPerDay
          n  == IF E < s THEN 0
                ELSE ((E - s) \div (MinPeriodDays(ev.recurrence) * SecondsPerDay)) + 1
          cancelled == {c.d : c \in SeqToSet(ev.cancellation_dates)}
          ks == SelectSeq([i \in 1 .. n |-> i - 1],
                          LAMBDA k :
                            LET r == RefStart(ev.recurrence, s, k)
                            IN  r.ok /\ r.t <= E /\ DateOf(r.t) \notin cancelled)
      IN  [i \in 1 .. Len(ks) |->
             LET t == RefStart(ev.recurrence, s, ks[i]).t
             IN  <<isoformat(ev.start.tag = "aware", t),
                   isoformat(ev.start.tag = "aware", t + (ev.end.t - ev.start.t))>>]

\* the events the reference definition speaks of: start and end of one kind,
\* no recurrence or a daily, weekly or monthly one, and a recurrence end that
\* is absent or a timestamp of the kind of start
HasReference(ev) ==
    /\ Comparable(ev.start, ev.end)
    /\ ev.recurrence \in {None, "", "daily", "weekly", "monthly"}
    /\ \/ ~TimeTruthy(ev.recurrence_end)
       \/ WellFormed(ev.recurrence_end) /\ ev.recurrence_end.tag = ev.start.tag

\* C9: the expansion of every stored event agrees with the reference
\* definition: it succeeds, and its occurrences have the reference's starts
\* and ends in the reference's order.
C9_ExpandIsReference ==
    \A i \in DOMAIN calendar_events :
       HasReference(calendar_events[i]) =>
          LET g == generate_recurring_events(calendar_events[i])
          IN  g.err = "none" /\ Times(g.events) = RefOccurrences(calendar_events[i])

\* C10: the expansion of every stored recurring event without recurrence end
\* ends with a list of occurrences, none of which starts later than 365 days
\* after the event's start, whatever its recurrence value.
C10_DefaultBound ==
    \A i \in DOMAIN calendar_events :
       LET ev == calendar_events[i]
       IN  (/\ Truthy(ev.recurrence)
            /\ ~TimeTruthy(ev.recurrence_end)
            /\ Comparable(ev.start, ev.end)) =>
              LET g == generate_recurring_events(ev)
              IN  /\ g.err = "none"
                  /\ \A k \in 1 .. Len(g.events) :
                        g.events[k].start.t <=
                          ev.start.t + DefaultRecurrenceDays * SecondsPerDay


\* the number of the calendar month of a time, counted from year 0
MonthIndex(t) == CivilFromDays(DateOf(t)).y * 12 + CivilFromDays(DateOf(t)).m

\* the expansion of a monthly event completes; its occurrences do not start
\* after the bound, fall on the event's day of month and in later and later
\* months, the k-th of them k - 1 months after the event's own month when no
\* date is cancelled; and there are then as many as the reference definition
\* has
MonthlyAsClaimed(ev) ==
    Bind(generate_recurring_events(ev), LAMBDA g :
         /\ g.err = "none"
         /\ ev.cancellation_dates = <<>> =>
              Len(g.events) = Len(RefOccurrences(ev))
         /\ \A k \in 1 .. Len(g.events) :
               /\ CivilFromDays(DateOf(g.events[k].start.t)).d
                    = CivilFromDays(DateOf(ev.start.t)).d
               /\ MonthIndex(g.events[k].start.t) - MonthIndex(ev.start.t)
                    >= k - 1
               /\ ev.cancellation_dates = <<>> =>
                    MonthIndex(g.events[k].start.t) - MonthIndex(ev.start.t)
                      = k - 1
               /\ g.events[k].start.t <=
                    ( IF TimeTruthy(ev.recurrence_end) THEN ev.recurrence_end.t
                      ELSE ev.start.t + DefaultRecurrenceDays * SecondsPerDay ))

\* C20: the expansion of every stored monthly event completes and returns
\* occurrences on the event's day of month in each successive calendar month
\* up to the bound, the year going up after December, whatever the day of
\* month and the month of the event's start.
C20_MonthlyEveryDay ==
    \A i \in DOMAIN calendar_events :
       ( /\ calendar_events[i].recurrence = "monthly"
         /\ HasReference(calendar_events[i]) )
       => MonthlyAsClaimed(calendar_events[i])

-----------------------------------------------------------------------------
(* Properties of conflict detection *)

\* the step's response carries the result of a conflict scan
Scanned == resp'.status = "ok" /\ resp'.with_conflicts

\* what the scan of the step was called with: create_event scans for the
\* request, update_event for the event as updated, leaving the event out
Candidate ==
    IF resp'.op = "create"
    THEN [start |-> resp'.req.start, end |-> resp'.req.end,
          room |-> resp'.req.room, exclude |-> 0]
    ELSE [start |-> resp'.event.start, end |-> resp'.event.end,
          room |-> resp'.event.room, exclude |-> resp'.req.event_id]

ReportedIds ==
    {resp'.conflicts[k].event_id : k \in 1 .. Len(resp'.conflicts)}

\* candidateStart < otherEnd and candidateEnd > otherStart
TimeOverlap(c, t) == c.start.t < t.end.t /\ c.end.t > t.start.t

\* C11: a scan reports a stored same-room event, which is neither cancelled
\* nor the updated event itself, exactly when the candidate starts before the
\* event ends and ends after it starts, so that an event the candidate only
\* touches is not reported; a reported overlap raises has_conflicts, and the
\* math club of 16:00-17:30 in Room 101, created next to the chess meeting
\* of 15:30-17:00 in Room 101 alone, gets one conflict, which names the chess
\* meeting.
C11_OverlapTest ==
    [][Scanned =>
         /\ \A i \in DOMAIN calendar_events :
               ( /\ i # Candidate.exclude
                 /\ ~calendar_events[i].is_cancelled
                 /\ Truthy(Candidate.room)
                 /\ calendar_events[i].room = Candidate.room )
               => /\ i \in ReportedIds
                       <=> TimeOverlap(Candidate, calendar_events[i])
                  /\ TimeOverlap(Candidate, calendar_events[i])
                       => resp'.has_conflicts
         /\ ( /\ resp'.op = "create"
              /\ resp'.req = MathCreate
              /\ DOMAIN calendar_events = {1}
              /\ calendar_events[1] = NewEvent(BaseCreate, 1, hash_seed) )
            => /\ resp'.has_conflicts
               /\ Len(resp'.conflicts) = 1
               /\ resp'.conflicts[1].event_id = 1
               /\ resp'.conflicts[1].title = BaseCreate.title
    ]_vars

\* the math club was created next to the chess meeting and its response
\* names the chess meeting as its one conflict
C11_Witness ==
    /\ resp.op = "create"
    /\ resp.status = "ok"
    /\ resp.req = MathCreate
    /\ DOMAIN calendar_events = {1, 2}
    /\ calendar_events[1] = NewEvent(BaseCreate, 1, hash_seed)
    /\ resp.has_conflicts
    /\ Len(resp.conflicts) = 1
    /\ resp.conflicts[1].event_id = 1

\* the stored events a scan for candidate c has to report, room restricted
\* when restrict holds
ConflictIds(events, c, restrict) ==
    {i \in DOMAIN events :
       /\ i # c.exclude
       /\ ~events[i].is_cancelled
       /\ TimeOverlap(c, events[i])
       /\ restrict => events[i].room = c.room}

\* the response lists the events of ids and no other, under the id, title,
\* start and end they are stored with
ReportsExactly(ids) ==
    /\ ReportedIds = ids
    /\ \A k \in 1 .. Len(resp'.conflicts) :
          LET c == resp'.conflicts[k]
              t == calendar_events[c.event_id]
          IN  c.title = t.title /\ c.start = t.start /\ c.end = t.end

\* C12 as stated: a scan returns exactly the stored events that are not the
\* excluded one, are not cancelled and overlap the candidate in time, those in
\* the candidate's room only whenever the candidate has a room, the empty
\* string included.
C12_AsStated ==
    [][Scanned =>
         ReportsExactly(ConflictIds(calendar_events, Candidate,
                                    Candidate.room # None))
    ]_vars

\* C12: a scan returns exactly the stored events that are not the excluded
\* one, are not cancelled and overlap the candidate in time, those in the
\* candidate's room only when the candidate's room is a non-empty string, and
\* those of every room when it is None or empty; the list of an update holds
\* neither the updated event nor a cancelled one.
C12_ConflictSet ==
    [][Scanned =>
         /\ ReportsExactly(ConflictIds(calendar_events, Candidate,
                                       Truthy(Candidate.room)))
         /\ resp'.op = "update" => resp'.req.event_id \notin ReportedIds
         /\ \A i \in ReportedIds : ~calendar_events[i].is_cancelled
    ]_vars

\* the times of event 2 were sent again while event 1, in the same room and
\* overlapping it, was cancelled: the response has an empty conflict list
C12_Witness ==
    /\ resp.op = "update"
    /\ resp.status = "ok"
    /\ resp.with_conflicts
    /\ resp.req.event_id = 2
    /\ DOMAIN calendar_events = {1, 2}
    /\ calendar_events[1].is_cancelled
    /\ Truthy(calendar_events[2].room)
    /\ calendar_events[1].room = calendar_events[2].room
    /\ TimeOverlap(calendar_events[2], calendar_events[1])
    /\ resp.conflicts = <<>>

\* the scan update_event makes for stored event a when the request sends
\* a's own start and end again
ScanFor(a) ==
    check_event_conflicts(calendar_events,
                          parse_datetime(calendar_events[a].start),
                          parse_datetime(calendar_events[a].end),
                          calendar_events[a].room, a)

\* that scan completes and reports stored event b
Reports(a, b) ==
    /\ ScanFor(a).err = "none"
    /\ \E k \in 1 .. Len(ScanFor(a).conflicts) :
          ScanFor(a).conflicts[k].event_id = b

\* the start and end of stored event a can be parsed
Parsable(a) ==
    /\ parse_datetime(calendar_events[a].start).ok
    /\ parse_datetime(calendar_events[a].end).ok

FlagMatchesList == resp'.has_conflicts <=> resp'.conflicts # <<>>

\* C14: a create whose activity exists and whose end is after its start, and
\* an update of a stored event whose resulting end is after its resulting
\* start, succeed and store their result whatever the scan finds, and the
\* response's has_conflicts flag is raised exactly when its conflict list is
\* non-empty.
C14_NeverBlocked ==
    [][/\ ( /\ resp'.op = "create"
            /\ resp'.req.activity_name \in DOMAIN activities
            /\ EndAfterStart(resp'.req) )
          => /\ resp'.status = "ok"
             /\ event_id_counter \in DOMAIN calendar_events'
             /\ calendar_events'[event_id_counter] = resp'.event
             /\ FlagMatchesList
       /\ ( /\ resp'.op = "update"
            /\ resp'.req.event_id \in DOMAIN calendar_events
            /\ EndAfterStart(ApplyUpdate(calendar_events[resp'.req.event_id],
                                         resp'.req.fields)) )
          => /\ resp'.status = "ok"
             /\ calendar_events'[resp'.req.event_id] = resp'.event
             /\ FlagMatchesList
    ]_vars

\* C15: a successful update response carries the conflict list and the
\* has_conflicts flag exactly when the request supplied start or end; an
\* update of other fields only returns just the event.
C15_ConflictsIffTimes ==
    [][(resp'.op = "update" /\ resp'.status = "ok")
         => ( resp'.with_conflicts
              <=> \/ resp'.req.fields.start # NoTime
                  \/ resp'.req.fields.end # NoTime )
    ]_vars

\* the stored events without their recurrence, recurrence end and cancelled
\* dates
Plain(events) ==
    [i \in DOMAIN events |->
       [events[i] EXCEPT !.recurrence = None, !.recurrence_end = NoTime,
                         !.cancellation_dates = <<>>]]

\* C19: the result of a scan is the result of the same scan on the store
\* with every recurrence, recurrence end and list of cancelled dates erased;
\* a stored event whose own start and end do not overlap the candidate is
\* not reported, whatever its later occurrences overlap, and a same-room event
\* that is not cancelled as a whole and whose own start and end overlap the
\* candidate is reported even when its own date is among its cancelled dates
\* or its recurrence end leaves it without any occurrence.
C19_TemplateTimesOnly ==
    [][Scanned =>
         /\ resp'.conflicts =
               check_event_conflicts(Plain(calendar_events),
                                     parse_datetime(Candidate.start),
                                     parse_datetime(Candidate.end),
                                     Candidate.room, Candidate.exclude).conflicts
         /\ \A i \in DOMAIN calendar_events \ {Candidate.exclude} :
               /\ ~TimeOverlap(Candidate, calendar_events[i])
                    => i \notin ReportedIds
               /\ ( /\ TimeOverlap(Candidate, calendar_events[i])
                    /\ ~calendar_events[i].is_cancelled
                    /\ calendar_events[i].room = Candidate.room
                    /\ \/ calendar_events[i].cancellation_dates # <<>>
                       \/ calendar_events[i].recurrence_end # NoTime )
                  => i \in ReportedIds
    ]_vars

\* the math club of a week later was created in the room of the weekly chess
\* meeting, which recurs until the end of the year and whose second
\* occurrence it overlaps, and its response has no conflict
C19_Witness ==
    /\ resp.op = "create"
    /\ resp.status = "ok"
    /\ resp.req.start = Naive(T1600 + OneWeek)
    /\ Truthy(resp.req.room)
    /\ DOMAIN calendar_events = {1, 2}
    /\ calendar_events[1].recurrence = "weekly"
    /\ calendar_events[1].recurrence_end = Naive(WEnd)
    /\ calendar_events[1].cancellation_dates = <<>>
    /\ calendar_events[1].room = resp.req.room
    /\ ~calendar_events[1].is_cancelled
    /\ ~TimeOverlap(resp.req, calendar_events[1])
    /\ \E k \in 1 .. Len(generate_recurring_events(calendar_events[1]).events) :
          TimeOverlap(resp.req,
                      generate_recurring_events(calendar_events[1]).events[k])
    /\ resp.conflicts = <<>>
    /\ ~resp.has_conflicts

-----------------------------------------------------------------------------
(* Properties of listing *)

\* the occurrences of one event by the reference definition of expand: the
\* event with the start and end of each of its reference occurrences
RefInstances(ev) ==
    Bind(RefOccurrences(ev), LAMBDA occ :
         [k \in 1 .. Len(occ) |->
            [ev EXCEPT !.start = occ[k][1], !.end = occ[k][2]]])

\* the reference occurrences of the stored events of ids, event after event
RECURSIVE RefAll(_, _)
RefAll(events, ids) ==
    IF ids = <<>> THEN <<>>
    ELSE RefInstances(events[Head(ids)]) \o RefAll(events, Tail(ids))

\* occurrence o passes every filter that query q supplies
Passes(o, q, roster) ==
    /\ TimeTruthy(q.start) => o.end.t >= q.start.t
    /\ TimeTruthy(q.end) => o.start.t <= q.end.t
    /\ Truthy(q.activity) => o.activity_name = q.activity
    /\ Truthy(q.email) =>
          \E name \in DOMAIN roster :
             /\ name = o.activity_name
             /\ q.email \in SeqToSet(roster[name])

\* C16: a listing leaves the store, the id counter and the roster unchanged,
\* and, the stored events being ones the reference definition of expand
\* speaks of, it succeeds and returns exactly the reference occurrences of
\* all stored events that pass the supplied filters (end >= window start,
\* start <= window end, activity equal to the activity filter, activity one
\* whose roster holds the email), with count the length of the list.
C16_ListContract ==
    [][resp'.op = "list" =>
         /\ UNCHANGED <<calendar_events, event_id_counter, activities>>
         /\ (\A i \in DOMAIN calendar_events : HasReference(calendar_events[i]))
            => /\ resp'.status = "ok"
               /\ resp'.events =
                     SelectSeq(RefAll(calendar_events,
                                      SortedIds(DOMAIN calendar_events)),
                               LAMBDA o : Passes(o, resp'.req, activities))
               /\ resp'.count = Len(resp'.events)
    ]_vars

\* the weekly class of test_calendar.py as stored after cancel-date with
\* 2024-12-10, its recurrence end being 2024-12-31T16:30:00 or the date alone
ScenarioClass(ev) ==
    /\ ev.start = Naive(W1530)
    /\ ev.end = Naive(W1630)
    /\ ev.recurrence = "weekly"
    /\ ev.recurrence_end \in {Naive(WEnd), DateOnly(2024, 12, 31)}
    /\ ev.cancellation_dates = <<CanonDate(DaysFromCivil(2024, 12, 10))>>

\* a listing of December with no other filter, by the timestamps of
\* test_calendar.py or by the dates alone
DecemberQuery(q) ==
    /\ q.activity = None
    /\ q.email = None
    /\ <<q.start, q.end>> \in
          {<<Naive(DT(2024, 12, 1, 0, 0, 0)), Naive(DT(2024, 12, 31, 23, 59, 59))>>,
           <<DateOnly(2024, 12, 1), DateOnly(2024, 12, 31)>>}

\* the starts of the occurrences of stored event i in the step's response
ListedStarts(i) ==
    Bind(SelectSeq(resp'.events, LAMBDA o : o.id = i), LAMBDA os :
         [k \in 1 .. Len(os) |-> os[k].start])

FirstThirdFourth ==
    <<isoformat(FALSE, W1530), isoformat(FALSE, W1530 + 2 * OneWeek),
      isoformat(FALSE, W1530 + 3 * OneWeek)>>

\* C17 as stated: a listing of December returns for the weekly class, after
\* cancel-date with 2024-12-10, exactly the three occurrences of 12-03, 12-17
\* and 12-24.
C17_AsStated ==
    [][(resp'.op = "list" /\ DecemberQuery(resp'.req)) =>
         \A i \in DOMAIN calendar_events :
            ScenarioClass(calendar_events[i]) =>
               /\ DOMAIN calendar_events = {i} => resp'.status = "ok"
               /\ resp'.status = "ok" => ListedStarts(i) = FirstThirdFourth
    ]_vars

\* C17: a listing of December succeeds when the weekly class is the only
\* stored event, and a listing that succeeds returns for the class, after
\* cancel-date with 2024-12-10, the occurrences of 12-03, 12-17 and 12-24,
\* followed by the occurrence of 12-31 when neither the recurrence end nor
\* the end of the window lies before its start of 2024-12-31T15:30:00.
C17_WeeklyScenario ==
    [][(resp'.op = "list" /\ DecemberQuery(resp'.req)) =>
         \A i \in DOMAIN calendar_events :
            ScenarioClass(calendar_events[i]) =>
               /\ DOMAIN calendar_events = {i} => resp'.status = "ok"
               /\ resp'.status = "ok" =>
                     ListedStarts(i) =
                       FirstThirdFourth \o
                       ( IF /\ W1530 + 4 * OneWeek <= calendar_events[i].recurrence_end.t
                            /\ W1530 + 4 * OneWeek <= resp'.req.end.t
                         THEN <<isoformat(FALSE, W1530 + 4 * OneWeek)>>
                         ELSE <<>> )
    ]_vars

\* the scenario as test_calendar.py runs it: the class with the recurrence
\* end of 16:30 is the only stored event, 2024-12-10 is cancelled, and the
\* listing of December up to 23:59:59 has returned four occurrences
C17_Witness ==
    /\ resp.op = "list"
    /\ resp.status = "ok"
    /\ resp.req.activity = None /\ resp.req.email = None
    /\ resp.req.end = Naive(DT(2024, 12, 31, 23, 59, 59))
    /\ DOMAIN calendar_events = {1}
    /\ ScenarioClass(calendar_events[1])
    /\ calendar_events[1].recurrence_end = Naive(WEnd)
    /\ resp.count = 4
    /\ resp.events[4].start = isoformat(FALSE, W1530 + 4 * OneWeek)

-----------------------------------------------------------------------------
(* Properties of concurrent creates *)

\* both create calls have returned with success
BothCreated == \A h \in Handlers : handlers[h].pc = "done"

\* C18: two create calls whose steps interleave can lose an update of the
\* counter.  When both have returned with success, either they were given
\* the same id, and then one stored event has been overwritten by the other
\* (no event is stored under the next id) or an event is stored under a key
\* that is not its id, and the counter is one or two beyond that id; or their
\* ids follow each other, each event is stored under its id and the counter
\* is the id after the greater one.
C18_LostUpdate ==
    BothCreated =>
       LET a == handlers[1].event.id
           b == handlers[2].event.id
       IN  IF a = b
           THEN /\ event_id_counter \in {a + 1, a + 2}
                /\ \/ a + 1 \notin DOMAIN calendar_events
                   \/ calendar_events[a + 1].id = a
           ELSE /\ (a = b + 1) \/ (b = a + 1)
                /\ event_id_counter = (IF a < b THEN b ELSE a) + 1
                /\ \A h \in Handlers :
                      /\ handlers[h].event.id \in DOMAIN calendar_events
                      /\ calendar_events[handlers[h].event.id]
                            = handlers[h].event

\* both create calls have returned with success and with the same id, while
\* the store holds an event whose id is not its key
C18_Witness ==
    /\ BothCreated
    /\ handlers[1].event.id = handlers[2].event.id
    /\ \E k \in DOMAIN calendar_events : calendar_events[k].id # k

-----------------------------------------------------------------------------
(* Properties of rejected updates *)

\* C21: an update that is rejected, with InvalidRange because the resulting
\* end is not after the resulting start or with InvalidFormat because a
\* timestamp cannot be parsed, leaves every stored event, the addressed one
\* included, and the id counter as they were before the request, so that a
\* later get or listing reads the values of before the request.
C21_RejectedUpdateKeepsStore ==
    [][( /\ resp'.op = "update"
         /\ resp'.status \in {"InvalidRange", "InvalidFormat"} )
         => StoreUnchanged
    ]_vars

====
